---- MODULE Spec2Model ----
(***************************************************************************)
(* Model of uodm.py, a micro-ODM for MongoDB: the Attr descriptor, the     *)
(* Document class (construction, write, attribute reads and writes,        *)
(* set_multiple) and the ODM context with its weak-value cache (find_one,  *)
(* find_all, _new, new).  The schemas are the ones of test_1.py (City and  *)
(* Person).  The Mongo database is a sequence of documents in insertion    *)
(* order, each tagged with its collection; `_id` is a document's position. *)
(***************************************************************************)
EXTENDS Integers, Sequences, FiniteSets, TLC

\* ------------------------------------------------------------------ bounds
MaxObjs == 2      \* object slots (addresses) that can be live at once
MaxNames == 2     \* distinct _name_ values (UUIDs)
MaxStore == 3     \* documents the database holds at most

ObjIds == 1..MaxObjs
Names == 1..MaxNames
Threads == {"t1", "t2"}   \* the threads that iterate find_all generators
MainThread == "t1"
NoObj == 0        \* "no object": a KeyError of the cache, a None result
NoName == 0       \* _name_ = None

VARIABLES
    store,   \* db_conn: the documents of all collections, in insertion order
    heap,    \* the Document objects the application holds, by address
    cache,   \* ODM._cache: _name_ -> address of a live object (weak values)
    gen,     \* the find_all generator each thread is iterating, and the object
             \* the thread's generators materialized last (made), while it lives
    wrote,   \* history: the last successful single-field write, for as long as
             \* only evictions and lookups of its record have followed it
    last     \* the last call: its arguments, outcome and store requests

vars == <<store, heap, cache, gen, wrote, last>>

\* ------------------------------------------------------------ class Attr
Attr(flags, args) ==
    LET mutable == "m" \in flags
        reference == "r" \in flags
        has_default == (~reference) /\ Len(args) > 0
    IN  IF reference
        THEN [mutable |-> mutable, reference |-> TRUE, has_default |-> FALSE,
              ref_class |-> args[1]]
        ELSE IF has_default
        THEN [mutable |-> mutable, reference |-> FALSE, has_default |-> TRUE,
              default |-> args[1]]
        ELSE [mutable |-> mutable, reference |-> FALSE, has_default |-> FALSE]

\* --------------------------------------------- the schemas of test_1.py
Classes == {"City", "Person"}

DB_COLLECTION(cls) == IF cls = "City" THEN "cities" ELSE "people"

ATTRIBUTES(cls) ==
    IF cls = "City"
    THEN [name |-> Attr({}, <<>>),
          population |-> Attr({"m"}, <<>>),
          ancient |-> Attr({}, <<FALSE>>)]
    ELSE [name |-> Attr({}, <<>>),
          age |-> Attr({"m"}, <<>>),
          city |-> Attr({"m", "r"}, <<"City">>),
          is_cool |-> Attr({}, <<TRUE>>)]

\* the order of ATTRIBUTES.items(): the insertion order of the dict literal
FieldOrder(cls) ==
    IF cls = "City" THEN <<"name", "population", "ancient">>
    ELSE <<"name", "age", "city", "is_cool">>

\* ------------------------------------------------------------- values
\* A value given for a reference attribute is either a Document object
\* (isdoc, val its address) or something else that has no _name_.
DocVal(o) == [isdoc |-> TRUE, val |-> o]
PlainVal(x) == [isdoc |-> FALSE, val |-> x]

\* an object: its class, _name_, contents, the ordinary attributes in its
\* __dict__ (extra), and whether a call has returned it to the application
\* (an object whose insert failed is held by the exception alone)
DeadObj == [cls |-> "none", _name_ |-> NoName, contents |-> <<>>, extra |-> {},
            returned |-> FALSE]
Live == {o \in ObjIds : heap[o].cls # "none"}
\* the live objects the application got from a create or a lookup: the
\* ones it can read, write and pass as values
Instances == {o \in Live : heap[o].returned}

Min(S) == CHOOSE x \in S : \A y \in S : x <= y

\* ------------------------------------------------- Document.__init__
\* lines 107-112 as value = _kwargs.pop(k) alone: no default, a KeyError
FieldError_KeyError(cls, k, kwargs) ==
    IF k \notin DOMAIN kwargs THEN "KeyError"
    ELSE IF ATTRIBUTES(cls)[k].reference /\ ~kwargs[k].isdoc THEN "AttributeError"
    ELSE "ok"

\* the value line 107-112 finds for attribute k, or the error it raises
FieldError(cls, k, kwargs) ==
    LET attr_ == ATTRIBUTES(cls)[k]
    IN  IF k \in DOMAIN kwargs
        THEN IF attr_.reference /\ ~kwargs[k].isdoc
             THEN "AttributeError"      \* value._name_ of a non-Document
             ELSE "ok"
        ELSE IF attr_.has_default THEN "ok"
        ELSE "MissingField"             \* ValueError, line 112

\* lines 107-110 with the two branches swapped: the default wins
FieldValue_DefaultFirst(cls, k, kwargs) ==
    IF ATTRIBUTES(cls)[k].has_default THEN ATTRIBUTES(cls)[k].default ELSE kwargs[k]

FieldValue(cls, k, kwargs) ==
    IF k \in DOMAIN kwargs THEN kwargs[k] ELSE ATTRIBUTES(cls)[k].default

\* line 114 (and 155, 181): value if not attr_.reference else value._name_
RawValue(attr_, value) ==
    IF ~attr_.reference THEN value ELSE heap[value.val]._name_

\* the exception __init__ raises for these keyword arguments, or "ok"
InitError(cls, kwargs) ==
    LET order == FieldOrder(cls)
        bad == {i \in 1..Len(order) : FieldError(cls, order[i], kwargs) # "ok"}
    IN  IF bad # {} THEN FieldError(cls, order[Min(bad)], kwargs)
        ELSE IF DOMAIN kwargs \ (DOMAIN ATTRIBUTES(cls) \cup {"_id"}) # {}
        THEN "TooManyArguments"         \* ValueError, line 120
        ELSE "ok"

\* self.contents after the loop of lines 106-116
InitContents(cls, kwargs) ==
    [k \in DOMAIN ATTRIBUTES(cls) |->
        RawValue(ATTRIBUTES(cls)[k], FieldValue(cls, k, kwargs))]

\* the names in use: uuid1() never returns one of them
RefsOf(cls, contents) ==
    {contents[k] : k \in {f \in DOMAIN ATTRIBUTES(cls) : ATTRIBUTES(cls)[f].reference}}
CollClass(coll) == IF coll = "cities" THEN "City" ELSE "Person"
UsedNames ==
    {store[i]._name_ : i \in 1..Len(store)}
    \cup UNION {RefsOf(CollClass(store[i].coll), store[i].fields) : i \in 1..Len(store)}
    \cup {heap[o]._name_ : o \in Live}
    \cup UNION {RefsOf(heap[o].cls, heap[o].contents) : o \in Live}
    \cup UNION {{gen[t].cursor[i]._name_ : i \in 1..Len(gen[t].cursor)} : t \in Threads}

generate_uuid == Min(Names \ UsedNames)

\* line 122: self._name_ = _name_ or self.generate_uuid()
InitName(_name_) == IF _name_ # NoName THEN _name_ ELSE generate_uuid

Document(cls, _name_, kwargs) ==
    [cls |-> cls, _name_ |-> InitName(_name_),
     contents |-> InitContents(cls, kwargs), extra |-> {}, returned |-> TRUE]

\* ---------------------------------------------------- Document.write
\* write() with the d['_name_'] = self._name_ of line 131 left out
WriteDoc_NoName(obj) ==
    [coll |-> DB_COLLECTION(obj.cls), _name_ |-> NoName, fields |-> obj.contents]

\* lines 130-135: the document insert() gets
WriteDoc(obj) ==
    [coll |-> DB_COLLECTION(obj.cls), _name_ |-> obj._name_, fields |-> obj.contents]

\* ------------------------------------------------------- ODM._cache
\* _new without the registration of line 268
CacheSet_Skip(c, n, o) == c

\* line 268: self._cache[obj._name_] = obj
CacheSet(c, n, o) == [c EXCEPT ![n] = o]

\* the weak reference of a dying object removes its entry, if the entry
\* still refers to that object
CacheDrop(c, o) == [n \in Names |-> IF c[n] = o THEN NoObj ELSE c[n]]

FreeSlot == Min(ObjIds \ Live)

\* what a call leaves behind: the operation, how it ended, the object it
\* returned and the requests it sent to the database
NoCall == [op |-> "init", err |-> "ok", res |-> NoObj, reqs |-> <<>>]
Call(op, err, res, reqs) == [op |-> op, err |-> err, res |-> res, reqs |-> reqs]

NoWrite == [obj |-> NoObj, name |-> NoName, key |-> "", val |-> 0]
IdleGen == [pc |-> "idle", cls |-> "none", cursor |-> <<>>, made |-> NoObj]

Init ==
    /\ store = <<>>
    /\ heap = [o \in ObjIds |-> DeadObj]
    /\ cache = [n \in Names |-> NoObj]
    /\ gen = [t \in Threads |-> IdleGen]
    /\ wrote = NoWrite
    /\ last = NoCall

\* ------------------------------------------------ ODM._new / ODM.new
\* the keyword arguments callers pass for a City and for a Person
CityKwargs ==
    << [name |-> "Rome", population |-> 1],
       [population |-> 1],
       [name |-> "Rome", population |-> 1, mayor |-> "x"] >>

PersonKwargs(v) ==
    << [name |-> "Ann", age |-> 30, city |-> v],
       [name |-> "Ann", age |-> 30] >>

RefValues == {DocVal(o) : o \in Instances} \cup {PlainVal(7)}

\* ODM.new(cls, _name_=_name_, **kwargs); ok: the insert succeeds
New(cls, _name_, kwargs, ok) ==
    LET err == InitError(cls, kwargs)
        obj == Document(cls, _name_, kwargs)
        o == FreeSlot
    IN  /\ Live # ObjIds
        /\ _name_ = NoName => Names \ UsedNames # {}
        /\ IF err # "ok"
           THEN /\ ok
                /\ UNCHANGED <<store, heap, cache>>
                /\ last' = Call("new", err, NoObj, <<>>)
           ELSE /\ ok => Len(store) < MaxStore
                /\ heap' = [heap EXCEPT ![o] = [obj EXCEPT !.returned = ok]]
                /\ cache' = CacheSet(cache, obj._name_, o)
                /\ store' = IF ok THEN Append(store, WriteDoc(obj)) ELSE store
                /\ last' = Call("new", IF ok THEN "ok" ELSE "StoreError",
                                IF ok THEN o ELSE NoObj, <<"insert">>)
        /\ wrote' = NoWrite
        /\ UNCHANGED gen

\* ------------------------------------- Document(...) called directly
\* cls(odm, _name_, **kwargs) with the registration of line 268 added
Construct_Registers(cls, _name_, kwargs) ==
    LET err == InitError(cls, kwargs)
        o == FreeSlot
    IN  /\ Live # ObjIds
        /\ _name_ = NoName => Names \ UsedNames # {}
        /\ heap' = IF err = "ok" THEN [heap EXCEPT ![o] = Document(cls, _name_, kwargs)]
                    ELSE heap
        /\ cache' = IF err = "ok" THEN CacheSet(cache, InitName(_name_), o) ELSE cache
        /\ last' = Call("construct", err, IF err = "ok" THEN o ELSE NoObj, <<>>)
        /\ wrote' = NoWrite
        /\ UNCHANGED <<store, gen>>

\* cls(odm, _name_, **kwargs): lines 91-123 build the object and nothing else
Construct(cls, _name_, kwargs) ==
    LET err == InitError(cls, kwargs)
        o == FreeSlot
    IN  /\ Live # ObjIds
        /\ _name_ = NoName => Names \ UsedNames # {}
        /\ heap' = IF err = "ok" THEN [heap EXCEPT ![o] = Document(cls, _name_, kwargs)]
                    ELSE heap
        /\ last' = Call("construct", err, IF err = "ok" THEN o ELSE NoObj, <<>>)
        /\ wrote' = NoWrite
        /\ UNCHANGED <<store, cache, gen>>

\* obj.write(), lines 129-135; ok: the insert succeeds
Persist(o, ok) ==
    /\ o \in Live
    /\ ok => Len(store) < MaxStore
    /\ store' = IF ok THEN Append(store, WriteDoc(heap[o])) ELSE store
    /\ last' = Call("write", IF ok THEN "ok" ELSE "StoreError", NoObj, <<"insert">>)
    /\ wrote' = NoWrite
    /\ UNCHANGED <<heap, cache, gen>>

\* the application drops its last reference to object o: the object dies
\* and its weak cache entry goes with it
Release(o) ==
    /\ o \in Live
    /\ heap' = [heap EXCEPT ![o] = DeadObj]
    /\ cache' = CacheDrop(cache, o)
    /\ last' = Call("release", "ok", NoObj, <<>>)
    /\ wrote' = IF wrote.name # heap[o]._name_ THEN NoWrite
                ELSE IF wrote.obj = o THEN [wrote EXCEPT !.obj = NoObj]
                ELSE wrote
    /\ gen' = [t \in Threads |->
                IF gen[t].made = o THEN [gen[t] EXCEPT !.made = NoObj] ELSE gen[t]]
    /\ UNCHANGED store

\* --------------------------------------------------- ODM.find_one
\* the names bound at module level in uodm.py (imports, classes, dunders)
ModuleGlobals ==
    {"division", "print_function", "unicode_literals", "weakref", "abc", "uuid",
     "__author__", "__copyright__", "__license__",
     "DocumentError", "Attr", "Document", "ODM"}

\* collection.find(criteria): criteria is {} (NoName) or {'_name_': n}
Query(coll, crit) ==
    SelectSeq(store, LAMBDA d : d.coll = coll /\ (crit = NoName \/ d._name_ = crit))

\* a raw document as the keyword arguments of cls(self, **d): _name_ binds
\* the parameter, the rest (with Mongo's _id) are the kwargs
DocKwargs(cls, d) ==
    [k \in DOMAIN d.fields \cup {"_id"} |->
        IF k = "_id" THEN 0
        ELSE IF k \in DOMAIN ATTRIBUTES(cls) /\ ATTRIBUTES(cls)[k].reference
             THEN PlainVal(d.fields[k])
             ELSE d.fields[k]]

\* find_one without the cache lookup of lines 229-233
FindOneOutcome_NoCache(cls, _name_) ==
    [err |-> "NameError", hit |-> FALSE, res |-> NoObj, reqs |-> <<>>]

\* how find_one(cls, _name_) ends: the cached object (hit), an exception,
\* or a document to materialize with _new (doc, lines 242-243)
FindOneOutcome(cls, _name_) ==
    IF cache[_name_] # NoObj
    THEN [err |-> "ok", hit |-> TRUE, res |-> cache[_name_], reqs |-> <<>>]
    ELSE IF "db_conn" \notin ModuleGlobals      \* line 235 reads a global db_conn
    THEN [err |-> "NameError", hit |-> FALSE, res |-> NoObj, reqs |-> <<>>]
    ELSE LET cursor == Query(DB_COLLECTION(cls), _name_)
         IN  IF Len(cursor) = 0
             THEN [err |-> "NotFound", hit |-> FALSE, res |-> NoObj, reqs |-> <<"find">>]
             ELSE IF Len(cursor) # 1
             THEN [err |-> "Integrity", hit |-> FALSE, res |-> NoObj, reqs |-> <<"find">>]
             ELSE [err |-> InitError(cls, DocKwargs(cls, cursor[1])), hit |-> FALSE,
                   res |-> NoObj, reqs |-> <<"find">>, doc |-> cursor[1]]

\* the state change of a call that ends as `out`: _new registers the
\* materialized object in slot o, anything else changes nothing
Lookup(cls, out, o) ==
    IF out.err = "ok" /\ ~out.hit
    THEN /\ heap' = [heap EXCEPT ![o] = Document(cls, out.doc._name_, DocKwargs(cls, out.doc))]
         /\ cache' = CacheSet(cache, out.doc._name_, o)
    ELSE /\ heap' = IF out.err = "ok" /\ out.res # NoObj
                     THEN [heap EXCEPT ![out.res].returned = TRUE]
                     ELSE heap
         /\ UNCHANGED cache

FindOne(cls, _name_) ==
    LET out == FindOneOutcome(cls, _name_)
    IN  /\ (out.err = "ok" /\ ~out.hit) => Live # ObjIds
        /\ Lookup(cls, out, FreeSlot)
        /\ last' = Call("find_one", out.err,
                        IF out.err = "ok" /\ ~out.hit THEN FreeSlot ELSE out.res, out.reqs)
        /\ wrote' = IF wrote.name = _name_ THEN wrote ELSE NoWrite
        /\ UNCHANGED <<store, gen>>

\* ------------------------------------------------ Document.__getattr__
\* reading obj.name: an ordinary attribute set through object.__setattr__
\* is found without __getattr__; a schema attribute is its raw value (val),
\* or for a reference what find_one returns; anything else AttributeError
GetAttr(o, name) ==
    LET obj == heap[o]
    IN  IF name \in obj.extra
        THEN [err |-> "ok", hit |-> TRUE, res |-> NoObj, reqs |-> <<>>, val |-> <<"x">>]
        ELSE IF name \in DOMAIN ATTRIBUTES(obj.cls)
        THEN IF ATTRIBUTES(obj.cls)[name].reference
             THEN FindOneOutcome(ATTRIBUTES(obj.cls)[name].ref_class, obj.contents[name])
             ELSE [err |-> "ok", hit |-> TRUE, res |-> NoObj, reqs |-> <<>>,
                   val |-> <<obj.contents[name]>>]
        ELSE [err |-> "UnknownAttribute", hit |-> TRUE, res |-> NoObj, reqs |-> <<>>]

Read(o, name) ==
    LET out == GetAttr(o, name)
        new == out.err = "ok" /\ ~out.hit
    IN  /\ o \in Live
        /\ new => Live # ObjIds
        /\ Lookup(ATTRIBUTES(heap[o].cls)[name].ref_class, out, FreeSlot)
        /\ last' = Call("getattr", out.err, IF new THEN FreeSlot ELSE out.res, out.reqs)
        /\ wrote' = NoWrite
        /\ UNCHANGED <<store, gen>>

\* ------------------------------------------------ Document.__setattr__
\* collection.update({"_name_": n}, {'$set': upd}): the first document of
\* the collection with that _name_ gets the fields of upd; none, no change
Update(s, coll, n, upd) ==
    LET found == {i \in 1..Len(s) : s[i].coll = coll /\ s[i]._name_ = n}
    IN  IF found = {} THEN s
        ELSE [s EXCEPT ![Min(found)].fields = upd @@ @]

\* lines 149-155 without the mutable check of lines 152-153
SetattrError_NoMutableCheck(cls, name, value) ==
    IF ATTRIBUTES(cls)[name].reference /\ ~value.isdoc THEN "AttributeError"
    ELSE "ok"

\* the exception lines 149-155 raise before the update, or "ok"
SetattrError(cls, name, value) ==
    IF ~ATTRIBUTES(cls)[name].mutable THEN "ReadOnly"
    ELSE IF ATTRIBUTES(cls)[name].reference /\ ~value.isdoc THEN "AttributeError"
    ELSE "ok"

\* lines 159-162 with self.contents[name] = raw_value moved before the update
SetattrContents_Eager(contents, name, raw_value, ok) ==
    [contents EXCEPT ![name] = raw_value]

\* lines 159-162: self.contents[name] = raw_value runs after the update
\* returned; ok: the update did not raise
SetattrContents(contents, name, raw_value, ok) ==
    IF ok THEN [contents EXCEPT ![name] = raw_value] ELSE contents

\* obj.name = value
SetAttr(o, name, value, ok) ==
    LET obj == heap[o]
    IN  /\ o \in Live
        /\ IF name \in DOMAIN ATTRIBUTES(obj.cls)
           THEN LET err == SetattrError(obj.cls, name, value)
                    raw_value == RawValue(ATTRIBUTES(obj.cls)[name], value)
                IN  IF err # "ok"
                    THEN /\ ok
                         /\ UNCHANGED <<store, heap>>
                         /\ wrote' = NoWrite
                         /\ last' = Call("setattr", err, NoObj, <<>>)
                    ELSE /\ store' = IF ok THEN Update(store, DB_COLLECTION(obj.cls), obj._name_,
                                                       [k \in {name} |-> raw_value])
                                     ELSE store
                         /\ heap' = [heap EXCEPT
                                ![o].contents = SetattrContents(@, name, raw_value, ok)]
                         /\ wrote' = IF ok THEN [obj |-> o, name |-> obj._name_,
                                                 key |-> name, val |-> raw_value]
                                     ELSE NoWrite
                         /\ last' = Call("setattr", IF ok THEN "ok" ELSE "StoreError",
                                         NoObj, <<"update">>)
           ELSE \* line 164: super().__setattr__(name, value)
                /\ ok
                /\ heap' = [heap EXCEPT ![o].extra = @ \cup {name}]
                /\ last' = Call("setattr", "ok", NoObj, <<>>)
                /\ wrote' = NoWrite
                /\ UNCHANGED store
        /\ UNCHANGED <<cache, gen>>

\* the names and values the callers write
WriteNames(cls) == DOMAIN ATTRIBUTES(cls)
PlainNames == {"nickname"}      \* a name no schema declares
WriteValues(cls, name) ==
    IF name \in DOMAIN ATTRIBUTES(cls) /\ ATTRIBUTES(cls)[name].reference THEN RefValues
    ELSE IF name = "population" THEN {5}
    ELSE IF name = "age" THEN {30}
    ELSE IF name \in {"ancient", "is_cool"} THEN {TRUE}
    ELSE {"x"}

\* ------------------------------------------------ Document.set_multiple
\* the checks of lines 173-181 without the mutable check of lines 178-179
PairError_NoMutableCheck(cls, kv) ==
    IF kv[1] \notin DOMAIN ATTRIBUTES(cls) THEN "UnknownAttribute"
    ELSE IF ATTRIBUTES(cls)[kv[1]].reference /\ ~kv[2].isdoc THEN "AttributeError"
    ELSE "ok"

\* d is an iterable of (name, value) pairs; the first pair that fails the
\* checks of lines 173-181 decides the exception
PairError(cls, kv) ==
    IF kv[1] \notin DOMAIN ATTRIBUTES(cls) THEN "UnknownAttribute"
    ELSE SetattrError(cls, kv[1], kv[2])

SetMultipleError(cls, d) ==
    LET bad == {i \in 1..Len(d) : PairError(cls, d[i]) # "ok"}
    IN  IF bad = {} THEN "ok" ELSE PairError(cls, d[Min(bad)])

\* raw_update after the loop: a later pair overrides an earlier one
RawUpdate(cls, d) ==
    [k \in {d[i][1] : i \in 1..Len(d)} |->
        LET i == CHOOSE j \in 1..Len(d) :
                    d[j][1] = k /\ \A m \in (j+1)..Len(d) : d[m][1] # k
        IN  RawValue(ATTRIBUTES(cls)[k], d[i][2])]

\* obj.set_multiple(d): contents is never assigned in lines 166-187
SetMultiple(o, d, ok) ==
    LET obj == heap[o]
        err == SetMultipleError(obj.cls, d)
    IN  /\ o \in Live
        /\ IF err # "ok"
           THEN /\ ok
                /\ UNCHANGED store
                /\ last' = Call("set_multiple", err, NoObj, <<>>)
           ELSE /\ store' = IF ok THEN Update(store, DB_COLLECTION(obj.cls), obj._name_,
                                              RawUpdate(obj.cls, d))
                            ELSE store
                /\ last' = Call("set_multiple", IF ok THEN "ok" ELSE "StoreError", NoObj,
                                <<"update">>)
        /\ wrote' = NoWrite
        /\ UNCHANGED <<heap, cache, gen>>

\* the batches the callers write
Batches(cls) ==
    IF cls = "City"
    THEN {<< <<"population", 5>> >>,
          << <<"population", 5>>, <<"name", "x">> >>,
          << <<"mayor", "x">>, <<"name", "x">> >>}
    ELSE {<< <<"age", 30>>, <<"city", v>> >> : v \in RefValues}
         \cup {<< <<"city", PlainVal(7)>>, <<"name", "x">> >>}

\* --------------------------------------------------- ODM.find_all
\* one next() of the generator of thread t, whose cursor still holds
\* `cursor`: lines 254-262 for its first document, all in one step
GenNext(t, cls, cursor) ==
    IF cursor = <<>>
    THEN /\ gen' = [gen EXCEPT ![t] = [IdleGen EXCEPT !.made = gen[t].made]]
         /\ last' = Call("next", "StopIteration", NoObj, <<>>)
         /\ UNCHANGED <<heap, cache>>
    ELSE LET d == Head(cursor)
             err == InitError(cls, DocKwargs(cls, d))
             o == FreeSlot
         IN  IF cache[d._name_] # NoObj
             THEN /\ gen' = [gen EXCEPT ![t] = [pc |-> "open", cls |-> cls,
                                                cursor |-> Tail(cursor), made |-> gen[t].made]]
                  /\ last' = Call("next", "ok", cache[d._name_], <<>>)
                  /\ heap' = [heap EXCEPT ![cache[d._name_]].returned = TRUE]
                  /\ UNCHANGED cache
             ELSE IF err # "ok"
             THEN /\ gen' = [gen EXCEPT ![t] = [IdleGen EXCEPT !.made = gen[t].made]]
                  /\ last' = Call("next", err, NoObj, <<>>)
                  /\ UNCHANGED <<heap, cache>>
             ELSE /\ Live # ObjIds
                  /\ heap' = [heap EXCEPT ![o] = Document(cls, d._name_, DocKwargs(cls, d))]
                  /\ cache' = CacheSet(cache, d._name_, o)
                  /\ gen' = [gen EXCEPT ![t] = [pc |-> "open", cls |-> cls,
                                                cursor |-> Tail(cursor), made |-> o]]
                  /\ last' = Call("next", "ok", o, <<>>)

\* the first next() of find_all(cls, criteria): the query, then the loop
FindAll(t, cls, crit) ==
    /\ gen[t].pc = "idle"
    /\ GenNext(t, cls, Query(DB_COLLECTION(cls), crit))
    /\ wrote' = NoWrite
    /\ UNCHANGED store

\* a later next() of the generator
FindAllNext(t) ==
    /\ gen[t].pc = "open"
    /\ GenNext(t, gen[t].cls, gen[t].cursor)
    /\ wrote' = NoWrite
    /\ UNCHANGED store

\* ------------------------------------- ODM.find_all, thread by thread
\* Nothing in find_all holds a lock, so another thread can run between
\* the cache lookup of line 256 and the _new of line 262.
\* The next() of thread t up to the lookup: a hit yields the cached
\* object, a miss (KeyError) leaves the thread before line 262.
GenLookup(t, cls, cursor) ==
    IF cursor = <<>>
    THEN /\ gen' = [gen EXCEPT ![t] = [IdleGen EXCEPT !.made = gen[t].made]]
         /\ last' = Call("next", "StopIteration", NoObj, <<>>)
         /\ UNCHANGED heap
    ELSE IF cache[Head(cursor)._name_] # NoObj
    THEN /\ gen' = [gen EXCEPT ![t] = [pc |-> "open", cls |-> cls,
                                       cursor |-> Tail(cursor), made |-> gen[t].made]]
         /\ last' = Call("next", "ok", cache[Head(cursor)._name_], <<>>)
         /\ heap' = [heap EXCEPT ![cache[Head(cursor)._name_]].returned = TRUE]
    ELSE /\ gen' = [gen EXCEPT ![t] = [pc |-> "missed", cls |-> cls,
                                       cursor |-> cursor, made |-> gen[t].made]]
         /\ last' = Call("lookup", "KeyError", NoObj, <<>>)
         /\ UNCHANGED heap

ThreadFindAll(t, cls, crit) ==
    /\ gen[t].pc = "idle"
    /\ GenLookup(t, cls, Query(DB_COLLECTION(cls), crit))
    /\ wrote' = NoWrite
    /\ UNCHANGED <<store, cache>>

ThreadNext(t) ==
    /\ gen[t].pc = "open"
    /\ GenLookup(t, gen[t].cls, gen[t].cursor)
    /\ wrote' = NoWrite
    /\ UNCHANGED <<store, cache>>

\* line 262 after a miss: yield self._new(cls, **d)
ThreadNew(t) ==
    LET cls == gen[t].cls
        d == Head(gen[t].cursor)
        err == InitError(cls, DocKwargs(cls, d))
        o == FreeSlot
    IN  /\ gen[t].pc = "missed"
        /\ IF err # "ok"
           THEN /\ gen' = [gen EXCEPT ![t] = [IdleGen EXCEPT !.made = gen[t].made]]
                /\ last' = Call("next", err, NoObj, <<>>)
                /\ UNCHANGED <<heap, cache>>
           ELSE /\ Live # ObjIds
                /\ heap' = [heap EXCEPT ![o] = Document(cls, d._name_, DocKwargs(cls, d))]
                /\ cache' = CacheSet(cache, d._name_, o)
                /\ gen' = [gen EXCEPT ![t] = [pc |-> "open", cls |-> cls,
                                              cursor |-> Tail(gen[t].cursor), made |-> o]]
                /\ last' = Call("next", "ok", o, <<>>)
        /\ wrote' = NoWrite
        /\ UNCHANGED store

\* ---------------------------------------------------- the callers
\* the arguments of ODM.new: a class, an explicit _name_ or none, kwargs
NewCalls ==
    {<<"City", n, CityKwargs[1]>> : n \in Names \cup {NoName}}
    \cup {<<"City", NoName, CityKwargs[i]>> : i \in 2..Len(CityKwargs)}
    \cup {<<"Person", NoName, PersonKwargs(DocVal(o))[1]>> : o \in Instances}
    \cup {<<"Person", NoName, PersonKwargs(PlainVal(7))[i]>> : i \in 1..2}

Create == \E c \in NewCalls : New(c[1], c[2], c[3], TRUE)
\* more arguments of ODM.new: Mongo's _id, a missing field next to an
\* unknown key or to a bad reference
MoreNewCalls ==
    NewCalls
    \cup {<<"City", NoName, [name |-> "Rome", population |-> 1, _id |-> 0]>>,
          <<"City", NoName, [population |-> 1, mayor |-> "x"]>>,
          <<"Person", NoName, [name |-> "Ann", city |-> PlainVal(7)]>>}

\* the arguments of the constructor called directly: also a default overridden
ConstructCalls ==
    MoreNewCalls
    \cup {<<"City", NoName, [name |-> "Rome", population |-> 1, ancient |-> TRUE]>>}

CreateAny == \E c \in MoreNewCalls, ok \in BOOLEAN : New(c[1], c[2], c[3], ok)
Build == \E c \in ConstructCalls : Construct(c[1], c[2], c[3])
Save == \E o \in Instances, ok \in BOOLEAN : Persist(o, ok)
CreateCity == \E ok \in BOOLEAN : New("City", NoName, CityKwargs[1], ok)
Evict == \E o \in ObjIds : Release(o)
Find == \E cls \in Classes, n \in Names : FindOne(cls, n)
Write ==
    \E o \in Instances, ok \in BOOLEAN : \E name \in WriteNames(heap[o].cls) :
        \E value \in WriteValues(heap[o].cls, name) : SetAttr(o, name, value, ok)
WriteBatch ==
    \E o \in Instances, ok \in BOOLEAN : \E d \in Batches(heap[o].cls) :
        SetMultiple(o, d, ok)
WriteAny ==
    \E o \in Instances, ok \in BOOLEAN :
      \E name \in WriteNames(heap[o].cls) \cup PlainNames :
        \E value \in WriteValues(heap[o].cls, name) : SetAttr(o, name, value, ok)
ReadAny == \E o \in Instances : \E name \in WriteNames(heap[o].cls) \cup PlainNames : Read(o, name)

\* one thread of control: create, evict, look up, write
Next == Create \/ Evict \/ Find \/ Write \/ WriteBatch

Spec == Init /\ [][Next]_vars

\* one thread of control that also writes and reads attributes no schema
\* declares, on City records
NextAttr == CreateCity \/ Evict \/ WriteAny \/ ReadAny

SpecAttr == Init /\ [][NextAttr]_vars

\* two threads iterating find_all over City records created and evicted
\* before, interleaved at the statements of find_all
NextConc ==
    \/ CreateCity
    \/ Evict
    \/ \E t \in Threads, crit \in Names \cup {NoName} : ThreadFindAll(t, "City", crit)
    \/ \E t \in Threads : ThreadNext(t)
    \/ \E t \in Threads : ThreadNew(t)

SpecConc == Init /\ [][NextConc]_vars

\* one thread of control iterating find_all over the records it created
NextFind ==
    \/ Create
    \/ Evict
    \/ \E cls \in Classes, crit \in Names \cup {NoName} : FindAll(MainThread, cls, crit)
    \/ FindAllNext(MainThread)

SpecFind == Init /\ [][NextFind]_vars

\* one thread of control that creates records, with inserts that succeed
\* or fail, and constructs Documents itself
NextNew == CreateAny \/ Build \/ Evict

SpecNew == Init /\ [][NextNew]_vars

\* one thread of control that constructs Documents itself and persists
\* them with write()
NextBuild == Build \/ Save \/ Evict

SpecBuild == Init /\ [][NextBuild]_vars

\* one thread of control that creates records, with inserts that succeed
\* or fail, evicts them and looks identities up
NextLookup == CreateAny \/ Evict \/ Find

SpecLookup == Init /\ [][NextLookup]_vars

\* =================================================================== claims
\* what every attribute of every live object reads
Reads ==
    [o \in ObjIds |->
        IF o \in Live
        THEN [k \in DOMAIN ATTRIBUTES(heap[o].cls) |-> GetAttr(o, k)]
        ELSE <<>>]

\* reading attribute key of object o gives val (for a reference: an object
\* whose identity is val)
ReadsValue(o, key, val) ==
    LET r == GetAttr(o, key)
    IN  /\ r.err = "ok"
        /\ IF ATTRIBUTES(heap[o].cls)[key].reference
           THEN r.res # NoObj /\ heap[r.res]._name_ = val
           ELSE r.val = <<val>>

MutableNames(cls) == {k \in DOMAIN ATTRIBUTES(cls) : ATTRIBUTES(cls)[k].mutable}
FixedNames(cls) == DOMAIN ATTRIBUTES(cls) \ MutableNames(cls)
RefNames(cls) == {k \in DOMAIN ATTRIBUTES(cls) : ATTRIBUTES(cls)[k].reference}

\* C1: the application never holds two live Record Instances of one
\* identity, and a successful create or findOne returns the one instance
\* of the identity it resolved.
C1_OneInstancePerIdentity ==
    /\ \A o1, o2 \in Instances : heap[o1]._name_ = heap[o2]._name_ => o1 = o2
    /\ (last.op \in {"new", "find_one"} /\ last.err = "ok") =>
          \A o \in Instances : heap[o]._name_ = heap[last.res]._name_ => o = last.res

\* C2: a single-field write of a mutable field that the store rejects ends
\* with the store's error and leaves every read of every live instance,
\* and the store, as they were.
C2_FailedWriteIsolation ==
    [][ last'.op = "setattr" =>
          /\ \A o \in Instances : \A name \in MutableNames(heap[o].cls) :
                \A value \in WriteValues(heap[o].cls, name) :
                   (SetattrError(heap[o].cls, name, value) = "ok"
                       /\ SetAttr(o, name, value, FALSE))
                   => last'.err = "StoreError"
          /\ last'.err = "StoreError" => (Reads' = Reads /\ store' = store) ]_vars

\* C2 witness: a rejected write to a record whose field already differs
\* from the value of the write (population 1, write of 5 rejected).
C2_Witness ==
    /\ last.op = "setattr" /\ last.err = "StoreError"
    /\ \E o \in Live : heap[o].cls = "City" /\ heap[o].contents.population = 1

\* C3: after a successful single-field write of v the instance reads v,
\* and after the instance was evicted a findOne of its identity succeeds
\* and returns an instance that reads v.
C3_WriteThenRead ==
    /\ (last.op = "setattr" /\ wrote.obj # NoObj)
          => ReadsValue(wrote.obj, wrote.key, wrote.val)
    /\ (last.op = "find_one" /\ wrote.name # NoName /\ wrote.obj = NoObj)
          => (last.err = "ok" /\ ReadsValue(last.res, wrote.key, wrote.val))

\* C4: two threads running find_all for the same uncached identity never
\* materialize two distinct instances of it: the instances the threads'
\* generators materialized, while both live, are one object per identity.
C4_NoDoubleMaterialize ==
    \A t1, t2 \in Threads :
        (gen[t1].made # NoObj /\ gen[t2].made # NoObj
            /\ heap[gen[t1].made]._name_ = heap[gen[t2].made]._name_)
        => gen[t1].made = gen[t2].made

\* C5: findOne on a cache miss fails with NotFoundError for no stored
\* match and with IntegrityError for several, registering nothing; with
\* exactly one match it returns an instance of that identity, registered
\* in the cache under it.
C5_FindOneMiss ==
    [][ last'.op = "find_one" => \A cls \in Classes, n \in Names :
          (cache[n] = NoObj /\ FindOne(cls, n)) =>
             LET count == Len(Query(DB_COLLECTION(cls), n))
             IN  /\ count = 0 => (last'.err = "NotFound" /\ cache' = cache)
                 /\ count > 1 => (last'.err = "Integrity" /\ cache' = cache)
                 /\ count = 1 => /\ last'.err = "ok"
                                 /\ last'.res \in ObjIds
                                 /\ heap'[last'.res]._name_ = n
                                 /\ cache'[n] = last'.res ]_vars

\* C6: a successful create appends exactly one document to the store, in
\* the collection of the type, holding the instance's identity and the raw
\* value of every schema field (for a reference the identity of a then
\* live instance); the cache maps the identity to the returned instance;
\* no other document and no other cache entry changes.
C6_CreateEffect ==
    [][ (last'.op = "new" /\ last'.err = "ok") =>
          LET o == last'.res
              obj == heap'[o]
              doc == store'[Len(store')]
          IN  /\ o \in ObjIds \ Live
              /\ Len(store') = Len(store) + 1
              /\ SubSeq(store', 1, Len(store)) = store
              /\ doc.coll = DB_COLLECTION(obj.cls)
              /\ doc._name_ = obj._name_
              /\ DOMAIN doc.fields = DOMAIN ATTRIBUTES(obj.cls)
              /\ \A k \in DOMAIN ATTRIBUTES(obj.cls) : doc.fields[k] = obj.contents[k]
              /\ \A k \in RefNames(obj.cls) :
                    \E b \in Live : doc.fields[k] = heap[b]._name_
              /\ cache'[obj._name_] = o
              /\ \A n \in Names \ {obj._name_} : cache'[n] = cache[n]
              /\ \A b \in Live : heap'[b] = heap[b] ]_vars

\* C6 witness: a Person created next to a stored City; its document
\* holds the City's identity.
C6_Witness ==
    /\ last.op = "new" /\ last.err = "ok"
    /\ heap[last.res].cls = "Person"
    /\ Len(store) = 2
    /\ store[2].fields.city = store[1]._name_

\* the first pair of batch d that fails the checks is a read-only field
FirstBadIsFixed(cls, d) ==
    \E i \in 1..Len(d) :
        /\ d[i][1] \in FixedNames(cls)
        /\ \A j \in 1..(i-1) : PairError(cls, d[j]) = "ok"

HasFixed(cls, d) == \E i \in 1..Len(d) : d[i][1] \in FixedNames(cls)

\* C7, as claimed: a single-field write or a batch write containing a
\* field that is not mutable fails with ReadOnlyError, sends no update
\* and leaves every read as it was.
C7_ReadOnlyAlways ==
    [][ last'.op \in {"setattr", "set_multiple"} => \A o \in Instances :
          /\ \A name \in FixedNames(heap[o].cls) :
                \A value \in WriteValues(heap[o].cls, name) :
                   SetAttr(o, name, value, TRUE) =>
                      (last'.err = "ReadOnly" /\ last'.reqs = <<>> /\ Reads' = Reads)
          /\ \A d \in Batches(heap[o].cls) :
                (HasFixed(heap[o].cls, d) /\ SetMultiple(o, d, TRUE)) =>
                      (last'.err = "ReadOnly" /\ last'.reqs = <<>> /\ Reads' = Reads)
      ]_vars

\* C7, amended: a single-field write of a field that is not mutable fails
\* with ReadOnlyError; a batch write containing such a field fails, with
\* ReadOnlyError unless an earlier pair of the batch is itself invalid
\* (then with that pair's error); in every case no update is sent to the
\* store and every read is as it was.
C7_ReadOnly ==
    [][ last'.op \in {"setattr", "set_multiple"} => \A o \in Instances :
          /\ \A name \in FixedNames(heap[o].cls) :
                \A value \in WriteValues(heap[o].cls, name) :
                   SetAttr(o, name, value, TRUE) =>
                      (last'.err = "ReadOnly" /\ last'.reqs = <<>>
                         /\ Reads' = Reads /\ store' = store)
          /\ \A d \in Batches(heap[o].cls) :
                (HasFixed(heap[o].cls, d) /\ SetMultiple(o, d, TRUE)) =>
                      /\ last'.err \in {"ReadOnly", "UnknownAttribute", "AttributeError"}
                      /\ FirstBadIsFixed(heap[o].cls, d) => last'.err = "ReadOnly"
                      /\ last'.reqs = <<>>
                      /\ Reads' = Reads /\ store' = store
      ]_vars

\* C7 witness: a batch with a mutable and a read-only field was refused
\* while the record's City.name reads "Rome".
C7_Witness ==
    /\ last.op = "set_multiple" /\ last.err = "ReadOnly"
    /\ \E o \in Live : heap[o].cls = "City" /\ GetAttr(o, "name").val = <<"Rome">>

\* C8: a single-field write to a name the schema does not declare fails
\* with UnknownAttributeError and changes neither the instance nor the
\* store.
C8_UnknownWriteRejected ==
    [][ last'.op = "setattr" => \A o \in Instances : \A name \in PlainNames :
          SetAttr(o, name, "x", TRUE) =>
             (last'.err = "UnknownAttribute" /\ heap' = heap /\ store' = store) ]_vars

\* C9: while an instance B is live, reading a reference field of an
\* instance A that holds B's identity returns B itself.
C9_ReferenceRoundTrip ==
    \A a \in Instances : \A k \in RefNames(heap[a].cls) : \A b \in Instances :
        heap[b]._name_ = heap[a].contents[k] =>
            (GetAttr(a, k).err = "ok" /\ GetAttr(a, k).res = b)

\* C10: for a stored record whose instance was evicted, findOne on its
\* identity succeeds and returns an instance with that identity and with
\* the stored raw value of every schema field.
C10_EvictionRoundTrip ==
    [][ last'.op = "find_one" => \A i \in 1..Len(store) :
          LET d == store[i]
              cls == CollClass(d.coll)
          IN  (cache[d._name_] = NoObj /\ Len(Query(d.coll, d._name_)) = 1
                  /\ FindOne(cls, d._name_))
              => /\ last'.err = "ok"
                 /\ heap'[last'.res]._name_ = d._name_
                 /\ heap'[last'.res].contents = d.fields ]_vars

\* the keyword arguments omit a field whose descriptor has no default
Omits(cls, kwargs) ==
    \E k \in DOMAIN ATTRIBUTES(cls) :
        k \notin DOMAIN kwargs /\ ~ATTRIBUTES(cls)[k].has_default

\* C11: a create or a construction whose arguments omit a field that has
\* no default fails with MissingFieldError, registers nothing in the
\* cache, inserts nothing into the store and sends it no request.
C11_MissingFieldRejected ==
    [][ last'.op \in {"new", "construct"} => \A c \in ConstructCalls :
          (Omits(c[1], c[3]) /\ (New(c[1], c[2], c[3], TRUE) \/ Construct(c[1], c[2], c[3])))
          => /\ last'.err = "MissingField"
             /\ last'.reqs = <<>>
             /\ cache' = cache /\ store' = store /\ heap' = heap ]_vars

\* C11 witness: a create that omits a field was refused in a context that
\* already holds a stored, cached record.
C11_Witness ==
    /\ last.op = "new" /\ last.err = "MissingField"
    /\ Len(store) > 0
    /\ \E n \in Names : cache[n] # NoObj

\* a pair of a batch is valid: its name is declared and mutable, and the
\* value of a reference is a Record Instance
PairValid(cls, kv) ==
    /\ kv[1] \in MutableNames(cls)
    /\ kv[1] \in RefNames(cls) => kv[2].isdoc

AllValid(cls, d) == \A i \in 1..Len(d) : PairValid(cls, d[i])

\* the record of object o in the store: the first document of its
\* collection with its identity, or 0
RecordOf(s, obj) ==
    LET found == {i \in 1..Len(s) :
                    s[i].coll = DB_COLLECTION(obj.cls) /\ s[i]._name_ = obj._name_}
    IN  IF found = {} THEN 0 ELSE Min(found)

\* C12: a batch write with a pair that fails validation raises before any
\* request is sent; a valid batch sends exactly one update; whenever the
\* call fails (validation or store) neither the instance nor the store
\* changes, and when it succeeds the record holds every field of the batch.
C12_BatchAllOrNothing ==
    [][ last'.op = "set_multiple" => \A o \in Instances, ok \in BOOLEAN :
          \A d \in Batches(heap[o].cls) : SetMultiple(o, d, ok) =>
             LET cls == heap[o].cls
                 i == RecordOf(store, heap[o])
             IN  /\ ~AllValid(cls, d) =>
                      /\ last'.err \in {"UnknownAttribute", "ReadOnly", "AttributeError"}
                      /\ last'.reqs = <<>>
                 /\ AllValid(cls, d) =>
                      /\ last'.reqs = <<"update">>
                      /\ last'.err = IF ok THEN "ok" ELSE "StoreError"
                 /\ last'.err # "ok" => (heap' = heap /\ store' = store)
                 /\ (last'.err = "ok" /\ i # 0) =>
                      /\ \A j \in 1..Len(d) :
                            store'[i].fields[d[j][1]] =
                               IF d[j][1] \in RefNames(cls) THEN heap[d[j][2].val]._name_
                               ELSE d[j][2]
                      /\ \A j \in 1..Len(store) : j # i => store'[j] = store[j] ]_vars

\* C12 witness: the store rejected a valid batch of a Person (an age and
\* a reference to a City instance).
C12_Witness ==
    /\ last.op = "set_multiple" /\ last.err = "StoreError"
    /\ \E o \in Instances : heap[o].cls = "Person"

\* the identities of the stored records
StoredNames(s) == {s[i]._name_ : i \in 1..Len(s)}

\* C13, as claimed: when the insert of a create fails, the error reaches
\* the caller, the store holds no record of the instance's identity, and
\* the cache maps that identity to the constructed instance.
C13_NoRecordEver ==
    [][ (last'.op = "new" /\ last'.err = "StoreError") =>
          \E o \in ObjIds \ Live :
              /\ heap'[o].cls # "none"
              /\ cache'[heap'[o]._name_] = o
              /\ heap'[o]._name_ \notin StoredNames(store') ]_vars

\* C13, amended: when the insert of a create fails, the error reaches the
\* caller instead of an instance, the store is left as it was (so it holds
\* no record of the instance's identity unless the caller passed the
\* identity of a record stored before), and the cache maps that identity
\* to the constructed instance.
C13_InsertFailure ==
    [][ last'.op = "new" => \A c \in MoreNewCalls :
          (InitError(c[1], c[3]) = "ok" /\ New(c[1], c[2], c[3], FALSE)) =>
             /\ last'.err = "StoreError" /\ last'.res = NoObj
             /\ last'.reqs = <<"insert">>
             /\ store' = store
             /\ \E o \in ObjIds \ Live :
                   /\ heap'[o].cls = c[1]
                   /\ cache'[heap'[o]._name_] = o
                   /\ \A b \in Live : heap'[b] = heap[b]
                   /\ c[2] # NoName => heap'[o]._name_ = c[2]
                   /\ c[2] = NoName => heap'[o]._name_ \notin StoredNames(store') ]_vars

\* C13 witness: a create failed at its insert next to a stored record, and
\* the cache refers to the instance it constructed.
C13_Witness ==
    /\ last.op = "new" /\ last.err = "StoreError"
    /\ Len(store) > 0
    /\ \E o \in Live : ~heap[o].returned /\ cache[heap[o]._name_] = o

\* C14: findOne of an identity that is in the cache returns the cached
\* instance, sends no request to the store and changes neither the store
\* nor the cache nor any instance, whatever the store holds for the
\* identity (no record, one, or several).
C14_CacheHit ==
    [][ last'.op = "find_one" => \A cls \in Classes, n \in Names :
          (cache[n] # NoObj /\ FindOne(cls, n)) =>
             /\ last'.err = "ok"
             /\ last'.res = cache[n]
             /\ last'.reqs = <<>>
             /\ store' = store /\ cache' = cache
             /\ \A o \in ObjIds :
                   /\ heap'[o]._name_ = heap[o]._name_
                   /\ heap'[o].cls = heap[o].cls
                   /\ heap'[o].contents = heap[o].contents ]_vars

\* C14 witness: a findOne returned a cached instance whose identity has no
\* record in the store, next to a stored record of another identity.
C14_Witness ==
    /\ last.op = "find_one" /\ last.err = "ok" /\ last.res # NoObj
    /\ heap[last.res]._name_ \notin StoredNames(store)
    /\ Len(store) > 0

\* the documents of object obj's collection that carry its identity
RecordsOf(s, obj) ==
    {i \in 1..Len(s) : s[i].coll = DB_COLLECTION(obj.cls) /\ s[i]._name_ = obj._name_}

\* C15: between calls, every live instance that is the only instance of
\* its identity and has exactly one record in the store holds, for every
\* schema field, the raw value its record holds.
C15_Mirror ==
    \A o \in Instances :
        (/\ \A b \in Live : heap[b]._name_ = heap[o]._name_ => b = o
         /\ Cardinality(RecordsOf(store, heap[o])) = 1)
        => \A i \in RecordsOf(store, heap[o]) : store[i].fields = heap[o].contents

\* what a next() of thread t's find_all generator over cls owes the caller
\* when its cursor still holds `cursor`: the end of the iteration for an
\* empty cursor, else an instance of the first document's identity (the
\* cached one, or a new one that the cache then maps the identity to),
\* with the rest of the cursor left for the later calls
YieldsNext(t, cls, cursor) ==
    IF cursor = <<>>
    THEN /\ last'.err = "StopIteration"
         /\ gen'[t].pc = "idle"
         /\ heap' = heap /\ cache' = cache
    ELSE LET d == Head(cursor)
         IN  /\ last'.err = "ok"
             /\ last'.res \in ObjIds
             /\ heap'[last'.res]._name_ = d._name_
             /\ gen'[t].pc = "open" /\ gen'[t].cursor = Tail(cursor)
             /\ IF cache[d._name_] # NoObj
                THEN /\ last'.res = cache[d._name_]
                     /\ cache' = cache
                     /\ Live' = Live
                ELSE /\ last'.res \notin Live
                     /\ heap'[last'.res].cls = cls
                     /\ cache'[d._name_] = last'.res

\* C16: findAll(type, filter) yields one instance per record of the query,
\* in cursor order, and then ends; for a cached identity the cached
\* instance and no new object, otherwise a materialized instance of the
\* record's identity that the cache then holds.
C16_FindAllYields ==
    [][ last'.op = "next" =>
          /\ \A cls \in Classes, crit \in Names \cup {NoName} :
                FindAll(MainThread, cls, crit) =>
                   YieldsNext(MainThread, cls, Query(DB_COLLECTION(cls), crit))
          /\ FindAllNext(MainThread) =>
                YieldsNext(MainThread, gen[MainThread].cls, gen[MainThread].cursor) ]_vars

\* the keys of the keyword arguments that are no schema field (Mongo's
\* _id aside), and whether a reference field is given a non-Document
ExtraKeys(cls, kwargs) == DOMAIN kwargs \ (DOMAIN ATTRIBUTES(cls) \cup {"_id"})
BadReference(cls, kwargs) ==
    \E k \in RefNames(cls) \cap DOMAIN kwargs : ~kwargs[k].isdoc

\* C17, as claimed: a construction that supplies a key that is no schema
\* field fails with TooManyArgumentsError.
C17_ExtraKeyAlways ==
    [][ last'.op \in {"new", "construct"} => \A c \in ConstructCalls :
          (ExtraKeys(c[1], c[3]) # {}
              /\ (New(c[1], c[2], c[3], TRUE) \/ Construct(c[1], c[2], c[3])))
          => last'.err = "TooManyArguments" ]_vars

\* C17, amended: a construction with valid arguments gives an instance
\* whose raw fields have exactly the schema's field names, each the
\* caller's value (for a reference the identity of the instance given) or
\* else the descriptor's default; a construction that supplies a key that
\* is no schema field fails and builds nothing, with
\* TooManyArgumentsError unless a field is missing or a reference value
\* is no Record Instance (then with that error).
C17_Construction ==
    [][ last'.op \in {"new", "construct"} => \A c \in ConstructCalls, ok \in BOOLEAN :
          (New(c[1], c[2], c[3], ok) \/ (ok /\ Construct(c[1], c[2], c[3]))) =>
             LET cls == c[1]
                 kwargs == c[3]
                 broken == Omits(cls, kwargs) \/ BadReference(cls, kwargs)
             IN  /\ ExtraKeys(cls, kwargs) # {} =>
                      /\ last'.err \in {"TooManyArguments", "MissingField", "AttributeError"}
                      /\ ~broken => last'.err = "TooManyArguments"
                      /\ heap' = heap /\ cache' = cache /\ store' = store
                 /\ (ExtraKeys(cls, kwargs) = {} /\ ~broken) =>
                      /\ last'.err \in {"ok", "StoreError"}
                      /\ \E o \in ObjIds \ Live :
                            /\ heap'[o].cls = cls
                            /\ DOMAIN heap'[o].contents = DOMAIN ATTRIBUTES(cls)
                            /\ \A k \in DOMAIN ATTRIBUTES(cls) :
                                  heap'[o].contents[k] =
                                     IF k \notin DOMAIN kwargs THEN ATTRIBUTES(cls)[k].default
                                     ELSE IF k \in RefNames(cls)
                                          THEN heap[kwargs[k].val]._name_
                                          ELSE kwargs[k] ]_vars

\* C17 witness: two City instances, one constructed without `ancient`
\* (reads FALSE, the default) and one with ancient = TRUE.
C17_Witness ==
    /\ last.op = "construct" /\ last.err = "ok"
    /\ \E a, b \in Instances :
          /\ heap[a].cls = "City" /\ heap[a].contents.ancient = FALSE
          /\ heap[b].cls = "City" /\ heap[b].contents.ancient = TRUE

\* every reference field of every instance that reads without error reads
\* an instance of the field's referenced type
RefTypesOk ==
    \A a \in Instances : \A k \in RefNames(heap[a].cls) :
        GetAttr(a, k).err = "ok" =>
            /\ GetAttr(a, k).res # NoObj
            /\ heap[GetAttr(a, k).res].cls = ATTRIBUTES(heap[a].cls)[k].ref_class

\* C18: a findOne(type, identity) that returns an instance returns one of
\* the requested type, and so does every read of a reference field, also
\* when the identity is cached for an instance of another type.
C18_TypeConsistency ==
    [][ /\ last'.op = "find_one" => \A cls \in Classes, n \in Names :
              (FindOne(cls, n) /\ last'.err = "ok") => heap'[last'.res].cls = cls
        /\ RefTypesOk' ]_vars

\* C19: constructing a Document directly sends the store no request and
\* leaves the store, the cache and every other object as they were; the
\* record reaches the store only by write(), which inserts one document
\* with the instance's identity and raw fields (or nothing, if it fails).
C19_ConstructOffline ==
    [][ /\ last'.op = "construct" => \A c \in ConstructCalls :
              Construct(c[1], c[2], c[3]) =>
                 /\ last'.reqs = <<>>
                 /\ store' = store /\ cache' = cache
                 /\ \A b \in Live : heap'[b] = heap[b]
        /\ last'.op = "write" => \A o \in Instances, ok \in BOOLEAN :
              Persist(o, ok) =>
                 /\ last'.reqs = <<"insert">>
                 /\ cache' = cache /\ heap' = heap
                 /\ ~ok => store' = store
                 /\ ok => /\ Len(store') = Len(store) + 1
                          /\ SubSeq(store', 1, Len(store)) = store
                          /\ store'[Len(store')]._name_ = heap[o]._name_
                          /\ store'[Len(store')].coll = DB_COLLECTION(heap[o].cls)
                          /\ store'[Len(store')].fields = heap[o].contents ]_vars

\* C19 witness: an instance constructed directly was persisted with
\* write(): the store holds its record and the cache does not know it.
C19_Witness ==
    /\ last.op = "write" /\ last.err = "ok"
    /\ \E o \in Instances :
          /\ heap[o]._name_ \in StoredNames(store)
          /\ cache[heap[o]._name_] = NoObj

====
